---- MODULE Spec2Model ----
(***************************************************************************)
(* Model of the caption pipeline of skills/youtube-analyzer/scripts/       *)
(* analyze_youtube.py (caption selection, WebVTT parsing, scrolling-cue    *)
(* deduplication, main's error handling) and of the sessions.json          *)
(* migrations of tools/wtm/migrations.                                     *)
(*                                                                         *)
(* Texts are TLA+ strings; TLC evaluates Len, SubSeq and \o on them, so a  *)
(* Python str is modelled by the string itself, character by character.   *)
(* A cue is the pair <<timestamp, text>>, as the Python tuple.             *)
(***************************************************************************)
EXTENDS Integers, Sequences, FiniteSets, TLC

VARIABLES
    entries,        \* deduplicate_entries: the argument
    d_pc,           \* deduplicate_entries: position ("start", "loop", "done", "idle")
    idx,            \* deduplicate_entries: index of the next cue of entries[1:] to visit
    merged_parts,   \* deduplicate_entries: local list
    timestamps,     \* deduplicate_entries: local list
    result,         \* deduplicate_entries: returned value
    m_pc,           \* main: position
    available_subs, \* extract_subtitles: language tags of info["subtitles"]
    available_auto, \* extract_subtitles: language tags of info["automatic_captions"]
    chosen_lang,    \* extract_subtitles: local
    is_auto,        \* extract_subtitles: local
    subtitle_file,  \* main: first value returned by extract_subtitles
    lang,           \* main: second value returned by extract_subtitles
    subtitle_text,  \* main: local
    raised_at,      \* main: the statement that raised an exception, "none" if none did
    stdout,         \* main: what print() has written
    lines,          \* parse_vtt: content.splitlines()
    v_i,            \* parse_vtt: the index i into lines, counted from 1
    v_pc,           \* parse_vtt: position ("header", "cues", "done", "idle")
    v_entries,      \* parse_vtt: local list entries
    data,           \* migrations: the JSON document in the sessions file
    ran,            \* migrations: the script run last, "none" before the first run
    exit_code,      \* migrations: exit status of the script run last
    written         \* migrations: whether the script run last wrote the file

dedupVars == <<entries, d_pc, idx, merged_parts, timestamps, result>>

mainVars == <<m_pc, available_subs, available_auto, chosen_lang, is_auto,
              subtitle_file, lang, subtitle_text, raised_at, stdout>>

vttVars == <<lines, v_i, v_pc, v_entries>>

migVars == <<data, ran, exit_code, written>>

vars == <<dedupVars, mainVars, vttVars, migVars>>

-----------------------------------------------------------------------------
(* Python str helpers *)

Min(a, b) == IF a <= b THEN a ELSE b

\* s[n:] for 0 <= n
DropPrefix(s, n) == SubSeq(s, n + 1, Len(s))

\* s[:n] for 0 <= n
TakePrefix(s, n) == SubSeq(s, 1, Min(n, Len(s)))

\* s.endswith(suf)
endswith(s, suf) ==
    /\ Len(suf) <= Len(s)
    /\ SubSeq(s, Len(s) - Len(suf) + 1, Len(s)) = suf

\* s.startswith(pre)
startswith(s, pre) ==
    /\ Len(pre) <= Len(s)
    /\ SubSeq(s, 1, Len(pre)) = pre

\* sub in s
Contains(sub, s) ==
    \E i \in 0..(Len(s) - Len(sub)) : SubSeq(s, i + 1, i + Len(sub)) = sub

IsSpace(c) == c = " "

RECURSIVE lstrip(_)
lstrip(s) ==
    IF Len(s) > 0 /\ IsSpace(SubSeq(s, 1, 1)) THEN lstrip(DropPrefix(s, 1)) ELSE s

RECURSIVE rstrip(_)
rstrip(s) ==
    IF Len(s) > 0 /\ IsSpace(SubSeq(s, Len(s), Len(s)))
    THEN rstrip(SubSeq(s, 1, Len(s) - 1))
    ELSE s

\* s.strip()
strip(s) == rstrip(lstrip(s))

-----------------------------------------------------------------------------
(* find_overlap and deduplicate_entries *)

\* the loop "for i in range(max_overlap, 0, -1)" of find_overlap, entered at i
RECURSIVE OverlapFrom(_, _, _)
OverlapFrom(prev, curr, i) ==
    IF i = 0 THEN 0
    ELSE IF endswith(prev, TakePrefix(curr, i)) THEN i
    ELSE OverlapFrom(prev, curr, i - 1)

\* the same scan in increasing order: the shortest overlap wins
RECURSIVE OverlapUpFrom(_, _, _)
OverlapUpFrom(prev, curr, i) ==
    IF i > Min(Len(prev), Len(curr)) THEN 0
    ELSE IF endswith(prev, TakePrefix(curr, i)) THEN i
    ELSE OverlapUpFrom(prev, curr, i + 1)

find_overlap_shortest(prev, curr) == OverlapUpFrom(prev, curr, 1)
find_overlap(prev, curr) == OverlapFrom(prev, curr, Min(Len(prev), Len(curr)))

OverlapThreshold == 5

SignificantOverlapGE(overlap) == overlap >= OverlapThreshold
\* "if overlap > 5"
SignificantOverlap(overlap) == overlap > OverlapThreshold

NeverContained(text, prev_text) == FALSE
\* "if text in prev_text"
CurrInPrev(text, prev_text) == Contains(text, prev_text)

\* "if prev_text in text"
PrevInCurr(prev_text, text) == Contains(prev_text, text)

Last(s) == s[Len(s)]

SetLast(s, v) == [s EXCEPT ![Len(s)] = v]

ReplaceLastRestamp(parts, stamps, ts, text) == <<SetLast(parts, text), SetLast(stamps, ts)>>
\* "merged_parts[-1] = text; continue"
ReplaceLast(parts, stamps, ts, text) == <<SetLast(parts, text), stamps>>

\* "new_part = text[overlap:].strip(); if new_part: merged_parts[-1] = prev_text + ' ' + new_part; continue"
MergeOverlap(parts, stamps, text, overlap) ==
    LET new_part == strip(DropPrefix(text, overlap))
    IN  IF new_part # ""
        THEN <<SetLast(parts, Last(parts) \o " " \o new_part), stamps>>
        ELSE <<parts, stamps>>

\* "merged_parts.append(text); timestamps.append(ts)"
AppendNew(parts, stamps, ts, text) == <<Append(parts, text), Append(stamps, ts)>>

\* which branch of the loop body the cue takes against the last merged text
DedupCase(prev_text, text) ==
    IF text = prev_text THEN "exact"
    ELSE IF PrevInCurr(prev_text, text) THEN "replace"
    ELSE IF CurrInPrev(text, prev_text) THEN "contained"
    ELSE IF SignificantOverlap(find_overlap(prev_text, text)) THEN "overlap"
    ELSE "new"

\* one iteration of "for ts, text in entries[1:]"
DedupStep(parts, stamps, ts, text) ==
    LET c == DedupCase(Last(parts), text)
    IN  CASE c = "exact"     -> <<parts, stamps>>
          [] c = "replace"   -> ReplaceLast(parts, stamps, ts, text)
          [] c = "contained" -> <<parts, stamps>>
          [] c = "overlap"   -> MergeOverlap(parts, stamps, text, find_overlap(Last(parts), text))
          [] c = "new"       -> AppendNew(parts, stamps, ts, text)

\* list(zip(timestamps, merged_parts))
Zip(stamps, parts) == [k \in 1..Min(Len(stamps), Len(parts)) |-> <<stamps[k], parts[k]>>]

\* the loop over entries[1:], from cue number k of entries on
RECURSIVE DedupLoop(_, _, _, _)
DedupLoop(es, k, parts, stamps) ==
    IF k > Len(es) THEN <<parts, stamps>>
    ELSE LET st == DedupStep(parts, stamps, es[k][1], es[k][2])
         IN  DedupLoop(es, k + 1, st[1], st[2])

\* deduplicate_entries as a function of its argument
deduplicate_entries(es) ==
    IF es = <<>> THEN es
    ELSE LET st == DedupLoop(es, 2, <<es[1][2]>>, <<es[1][1]>>)
         IN  Zip(st[2], st[1])

-----------------------------------------------------------------------------
(* Inputs of the deduplicator *)

MaxEntries == 3
BaseLen == 8

\* a scrolling transcript: the word "a" and a space, repeated
Pattern == "a "

BaseChar(i) == SubSeq(Pattern, ((i - 1) % Len(Pattern)) + 1, ((i - 1) % Len(Pattern)) + 1)

RECURSIVE BasePrefix(_)
BasePrefix(n) == IF n = 0 THEN "" ELSE BasePrefix(n - 1) \o BaseChar(n)

Base == BasePrefix(BaseLen)

\* the caption windows over the transcript, and the empty text
Windows == {SubSeq(Base, i, j) : i \in 1..BaseLen, j \in 0..BaseLen}

\* a cue text that shares nothing with the transcript
OtherTexts == {"b"}

Texts == Windows \cup OtherTexts

\* cue texts of the worked examples
ExampleTexts ==
    {"the quick brown", "brown fox jumps", " brown fox jumps", "the quick brown fox", "quick"}

\* cue number k carries timestamp k: the deduplicator never inspects a timestamp
CueSeq(f) == [k \in DOMAIN f |-> <<k, f[k]>>]

-----------------------------------------------------------------------------
(* deduplicate_entries, statement by statement *)

\* no migration is running
IdleMig ==
    /\ data = <<>>
    /\ ran = "none"
    /\ exit_code = 0
    /\ written = FALSE

\* parse_vtt is not running
IdleVtt ==
    /\ lines = <<>>
    /\ v_i = 0
    /\ v_pc = "idle"
    /\ v_entries = <<>>

\* main is not running
IdleMain ==
    /\ m_pc = "idle"
    /\ available_subs = {}
    /\ available_auto = {}
    /\ chosen_lang = "None"
    /\ is_auto = FALSE
    /\ subtitle_file = "None"
    /\ lang = "None"
    /\ subtitle_text = [kind |-> "None"]
    /\ raised_at = "none"
    /\ stdout = <<>>

InitDedup ==
    /\ \E n \in 0..MaxEntries : \E f \in [1..n -> Texts] : entries = CueSeq(f)
    /\ d_pc = "start"
    /\ idx = 0
    /\ merged_parts = <<>>
    /\ timestamps = <<>>
    /\ result = <<>>
    /\ IdleMain
    /\ IdleVtt
    /\ IdleMig

\* "if not entries: return entries"
DedupReturnEmpty ==
    /\ d_pc = "start"
    /\ entries = <<>>
    /\ result' = entries
    /\ d_pc' = "done"
    /\ UNCHANGED <<entries, idx, merged_parts, timestamps, mainVars, vttVars, migVars>>

\* "merged_parts = [entries[0][1]]; timestamps = [entries[0][0]]"
DedupBegin ==
    /\ d_pc = "start"
    /\ entries # <<>>
    /\ merged_parts' = <<entries[1][2]>>
    /\ timestamps' = <<entries[1][1]>>
    /\ idx' = 2
    /\ d_pc' = "loop"
    /\ UNCHANGED <<entries, result, mainVars, vttVars, migVars>>

\* the loop is about to visit cue number idx
Visiting == d_pc = "loop" /\ idx <= Len(entries)

\* the branch the visited cue takes
Branch == DedupCase(Last(merged_parts), entries[idx][2])

\* the loop body applied to the visited cue
Iterate ==
    /\ LET st == DedupStep(merged_parts, timestamps, entries[idx][1], entries[idx][2])
       IN  /\ merged_parts' = st[1]
           /\ timestamps' = st[2]
    /\ idx' = idx + 1
    /\ UNCHANGED <<entries, d_pc, result, mainVars, vttVars, migVars>>

\* "if text == prev_text: continue"
DropExact ==
    /\ Visiting
    /\ Branch = "exact"
    /\ Iterate

\* "if prev_text in text: merged_parts[-1] = text; continue"
ReplaceBySuperset ==
    /\ Visiting
    /\ Branch = "replace"
    /\ Iterate

\* "if text in prev_text: continue"
DropContained ==
    /\ Visiting
    /\ Branch = "contained"
    /\ Iterate

\* "if overlap > 5: ...; continue"
OverlapMerge ==
    /\ Visiting
    /\ Branch = "overlap"
    /\ Iterate

\* "merged_parts.append(text); timestamps.append(ts)"
StartNewCue ==
    /\ Visiting
    /\ Branch = "new"
    /\ Iterate

\* "result = list(zip(timestamps, merged_parts)); return result"
DedupReturn ==
    /\ d_pc = "loop"
    /\ idx > Len(entries)
    /\ result' = Zip(timestamps, merged_parts)
    /\ d_pc' = "done"
    /\ UNCHANGED <<entries, idx, merged_parts, timestamps, mainVars, vttVars, migVars>>

NextDedup ==
    \/ DedupReturnEmpty
    \/ DedupBegin
    \/ DropExact
    \/ ReplaceBySuperset
    \/ DropContained
    \/ OverlapMerge
    \/ StartNewCue
    \/ DedupReturn

SpecDedup == InitDedup /\ [][NextDedup]_vars

InitExample ==
    /\ \E n \in 0..MaxEntries : \E f \in [1..n -> ExampleTexts] : entries = CueSeq(f)
    /\ d_pc = "start"
    /\ idx = 0
    /\ merged_parts = <<>>
    /\ timestamps = <<>>
    /\ result = <<>>
    /\ IdleMain
    /\ IdleVtt
    /\ IdleMig

SpecExample == InitExample /\ [][NextDedup]_vars

-----------------------------------------------------------------------------
(* extract_subtitles and main *)

\* Python's None
None == "None"

preferred_langs == <<"ko", "ko-KR", "en", "en-US", "en-orig">>

\* the language tags a catalog may hold: the preferred ones and one that is not
Langs == {preferred_langs[k] : k \in DOMAIN preferred_langs} \cup {"ja"}

\* "for lang in preferred_langs: if lang in available: chosen_lang = lang; break",
\* entered at position k of the list
RECURSIVE FirstAvailable(_, _)
FirstAvailable(available, k) ==
    IF k > Len(preferred_langs) THEN None
    ELSE IF preferred_langs[k] \in available THEN preferred_langs[k]
    ELSE FirstAvailable(available, k + 1)

\* one pass over the preferred languages, taking either kind of the first one found
RECURSIVE FirstOfEitherKind(_, _, _)
FirstOfEitherKind(subs, auto, k) ==
    IF k > Len(preferred_langs) THEN <<None, FALSE>>
    ELSE IF preferred_langs[k] \in subs THEN <<preferred_langs[k], FALSE>>
    ELSE IF preferred_langs[k] \in auto THEN <<preferred_langs[k], TRUE>>
    ELSE FirstOfEitherKind(subs, auto, k + 1)

ChooseCaptionByRank(subs, auto) == FirstOfEitherKind(subs, auto, 1)
\* the two passes of extract_subtitles: <<chosen_lang, is_auto>>
ChooseCaption(subs, auto) ==
    LET manual == FirstAvailable(subs, 1)
        automatic == FirstAvailable(auto, 1)
    IN  IF manual # None THEN <<manual, FALSE>>
        ELSE IF automatic # None THEN <<automatic, TRUE>>
        ELSE <<None, FALSE>>

\* the extensions extract_subtitles looks for in tmpdir, in this order
subtitle_exts == <<"vtt", "srt", "srv3", "ttml">>

\* "for ext in [...]: candidates = glob(*.ext); if candidates: subtitle_file = ...; break"
RECURSIVE FirstCandidate(_, _)
FirstCandidate(files, k) ==
    IF k > Len(subtitle_exts) THEN None
    ELSE IF subtitle_exts[k] \in files THEN "subtitle." \o subtitle_exts[k]
    ELSE FirstCandidate(files, k + 1)

\* format_subtitle_output: the fixed message for no cues, else the language header
\* with its label and one line per cue
format_subtitle_output(es, l) ==
    IF es = <<>> THEN [kind |-> "unparseable"]
    ELSE [kind |-> "transcript",
          lang |-> l,
          lang_label |-> IF l # None /\ l # ""
                         THEN (IF startswith(l, "ko") THEN "ko"
                               ELSE IF startswith(l, "en") THEN "en" ELSE "")
                         ELSE "",
          cues |-> es]

\* the statements inside the "try:" of main's caption block narrowed to the call
\* of extract_subtitles
InCaptionTryNarrow(site) == site \in {"extract_info", "download"}
\* the statements inside the "try:" of main's caption block
InCaptionTry(site) == site \in {"extract_info", "download", "parse"}

\* cue sequences a caption file may parse to
ParsedSamples ==
    { <<>>,
      <<<<1, "the quick brown">>, <<2, "brown fox jumps">>>>,
      <<<<1, "hello">>, <<2, "hello world">>, <<3, "hello world">>>> }

\* deduplicate_entries is not running
IdleDedup ==
    /\ entries = <<>>
    /\ d_pc = "idle"
    /\ idx = 0
    /\ merged_parts = <<>>
    /\ timestamps = <<>>
    /\ result = <<>>

InitMain ==
    /\ m_pc = "metadata"
    /\ available_subs \in SUBSET Langs
    /\ available_auto \in SUBSET Langs
    /\ chosen_lang = None
    /\ is_auto = FALSE
    /\ subtitle_file = None
    /\ lang = None
    /\ subtitle_text = [kind |-> None]
    /\ raised_at = "none"
    /\ stdout = <<>>
    /\ IdleDedup
    /\ IdleVtt
    /\ IdleMig

\* "info = extract_metadata(url)" returns
MetadataOk ==
    /\ m_pc = "metadata"
    /\ m_pc' = "extract_info"
    /\ UNCHANGED <<available_subs, available_auto, chosen_lang, is_auto, subtitle_file,
                   lang, subtitle_text, raised_at, stdout, dedupVars, vttVars, migVars>>

\* "info = extract_metadata(url)" raises
MetadataRaise ==
    /\ m_pc = "metadata"
    /\ raised_at' = "metadata"
    /\ m_pc' = "raise"
    /\ UNCHANGED <<available_subs, available_auto, chosen_lang, is_auto, subtitle_file,
                   lang, subtitle_text, stdout, dedupVars, vttVars, migVars>>

\* an exception travels to its handler: main's first "except Exception" prints to
\* stderr and exits 1, the one of the caption block stores the diagnostic, and an
\* exception raised anywhere else leaves main
Unwind ==
    /\ m_pc = "raise"
    /\ IF raised_at = "metadata"
       THEN m_pc' = "exited" /\ UNCHANGED subtitle_text
       ELSE IF InCaptionTry(raised_at)
       THEN m_pc' = "print" /\ subtitle_text' = [kind |-> "error"]
       ELSE m_pc' = "crashed" /\ UNCHANGED subtitle_text
    /\ UNCHANGED <<available_subs, available_auto, chosen_lang, is_auto, subtitle_file,
                   lang, raised_at, stdout, dedupVars, vttVars, migVars>>

\* extract_subtitles: "info = ydl.extract_info(url, download=False)" returns
ExtractInfoOk ==
    /\ m_pc = "extract_info"
    /\ m_pc' = "select"
    /\ UNCHANGED <<available_subs, available_auto, chosen_lang, is_auto, subtitle_file,
                   lang, subtitle_text, raised_at, stdout, dedupVars, vttVars, migVars>>

\* extract_subtitles: "info = ydl.extract_info(url, download=False)" raises
ExtractInfoRaise ==
    /\ m_pc = "extract_info"
    /\ raised_at' = "extract_info"
    /\ m_pc' = "raise"
    /\ UNCHANGED <<available_subs, available_auto, chosen_lang, is_auto, subtitle_file,
                   lang, subtitle_text, stdout, dedupVars, vttVars, migVars>>

\* extract_subtitles: the two passes find a language
SelectFound ==
    /\ m_pc = "select"
    /\ ChooseCaption(available_subs, available_auto)[1] # None
    /\ chosen_lang' = ChooseCaption(available_subs, available_auto)[1]
    /\ is_auto' = ChooseCaption(available_subs, available_auto)[2]
    /\ m_pc' = "download"
    /\ UNCHANGED <<available_subs, available_auto, subtitle_file, lang, subtitle_text,
                   raised_at, stdout, dedupVars, vttVars, migVars>>

\* extract_subtitles: "if chosen_lang is None: return None, None"
SelectNotFound ==
    /\ m_pc = "select"
    /\ ChooseCaption(available_subs, available_auto)[1] = None
    /\ chosen_lang' = None
    /\ is_auto' = ChooseCaption(available_subs, available_auto)[2]
    /\ subtitle_file' = None
    /\ lang' = None
    /\ m_pc' = "returned"
    /\ UNCHANGED <<available_subs, available_auto, subtitle_text, raised_at, stdout,
                   dedupVars, vttVars, migVars>>

\* extract_subtitles: "ydl.download([url])" raises
DownloadRaise ==
    /\ m_pc = "download"
    /\ raised_at' = "download"
    /\ m_pc' = "raise"
    /\ UNCHANGED <<available_subs, available_auto, chosen_lang, is_auto, subtitle_file,
                   lang, subtitle_text, stdout, dedupVars, vttVars, migVars>>

\* extract_subtitles: "ydl.download([url])" returns having written the files of
\* some extensions; "return subtitle_file, chosen_lang" or "return None, chosen_lang"
DownloadReturn ==
    /\ m_pc = "download"
    /\ \E files \in SUBSET {subtitle_exts[k] : k \in DOMAIN subtitle_exts} :
           subtitle_file' = FirstCandidate(files, 1)
    /\ lang' = chosen_lang
    /\ m_pc' = "returned"
    /\ UNCHANGED <<available_subs, available_auto, chosen_lang, is_auto, subtitle_text,
                   raised_at, stdout, dedupVars, vttVars, migVars>>

\* main: "if subtitle_file:" and parse_subtitle_file raises
ParseRaise ==
    /\ m_pc = "returned"
    /\ subtitle_file # None
    /\ raised_at' = "parse"
    /\ m_pc' = "raise"
    /\ UNCHANGED <<available_subs, available_auto, chosen_lang, is_auto, subtitle_file,
                   lang, subtitle_text, stdout, dedupVars, vttVars, migVars>>

\* main: "if subtitle_file:" parse, deduplicate, format
RenderTranscript ==
    /\ m_pc = "returned"
    /\ subtitle_file # None
    /\ \E parsed \in ParsedSamples :
           subtitle_text' = format_subtitle_output(deduplicate_entries(parsed), lang)
    /\ m_pc' = "print"
    /\ UNCHANGED <<available_subs, available_auto, chosen_lang, is_auto, subtitle_file,
                   lang, raised_at, stdout, dedupVars, vttVars, migVars>>

\* main: "elif lang:" the download produced no caption file
ReportDownloadFailed ==
    /\ m_pc = "returned"
    /\ subtitle_file = None
    /\ lang # None
    /\ subtitle_text' = [kind |-> "download_failed", lang |-> lang]
    /\ m_pc' = "print"
    /\ UNCHANGED <<available_subs, available_auto, chosen_lang, is_auto, subtitle_file,
                   lang, raised_at, stdout, dedupVars, vttVars, migVars>>

\* main: neither a file nor a language; subtitle_text stays None
NothingSelected ==
    /\ m_pc = "returned"
    /\ subtitle_file = None
    /\ lang = None
    /\ m_pc' = "print"
    /\ UNCHANGED <<available_subs, available_auto, chosen_lang, is_auto, subtitle_file,
                   lang, subtitle_text, raised_at, stdout, dedupVars, vttVars, migVars>>

\* main: print("\n".join(output_parts))
PrintReport ==
    /\ m_pc = "print"
    /\ stdout' = Append(stdout,
          [sections |-> <<"metadata", "description", "captions">>,
           captions |-> IF subtitle_text # [kind |-> None] THEN subtitle_text
                        ELSE [kind |-> "no_captions"]])
    /\ m_pc' = "done"
    /\ UNCHANGED <<available_subs, available_auto, chosen_lang, is_auto, subtitle_file,
                   lang, subtitle_text, raised_at, dedupVars, vttVars, migVars>>

NextMain ==
    \/ MetadataOk
    \/ MetadataRaise
    \/ Unwind
    \/ ExtractInfoOk
    \/ ExtractInfoRaise
    \/ SelectFound
    \/ SelectNotFound
    \/ DownloadRaise
    \/ DownloadReturn
    \/ ParseRaise
    \/ RenderTranscript
    \/ ReportDownloadFailed
    \/ NothingSelected
    \/ PrintReport

SpecMain == InitMain /\ [][NextMain]_vars

-----------------------------------------------------------------------------
(* parse_vtt *)

CharAt(s, k) == IF 1 <= k /\ k <= Len(s) THEN SubSeq(s, k, k) ELSE ""

\* \d (ASCII digits)
IsDigit(c) == c \in {"0", "1", "2", "3", "4", "5", "6", "7", "8", "9"}

\* \d{n} at position k of s
DigitsAt(s, k, n) == \A j \in k..(k + n - 1) : IsDigit(CharAt(s, j))

\* :\d{2}:\d{2}\.\d{3} after an hour field of h digits
HourFormAt(s, h) ==
    /\ DigitsAt(s, 1, h)
    /\ CharAt(s, h + 1) = ":"
    /\ DigitsAt(s, h + 2, 2)
    /\ CharAt(s, h + 4) = ":"
    /\ DigitsAt(s, h + 5, 2)
    /\ CharAt(s, h + 7) = "."
    /\ DigitsAt(s, h + 8, 3)

\* \d{2}:\d{2}\.\d{3}
MinuteForm(s) ==
    /\ DigitsAt(s, 1, 2)
    /\ CharAt(s, 3) = ":"
    /\ DigitsAt(s, 4, 2)
    /\ CharAt(s, 6) = "."
    /\ DigitsAt(s, 7, 3)

\* re.match(r"(\d{1,2}:\d{2}:\d{2}\.\d{3}|\d{2}:\d{2}\.\d{3})", line): group 1 or
\* None. \d{1,2} is greedy, the first alternative that matches wins.
timestamp_match(line) ==
    IF HourFormAt(line, 2) THEN SubSeq(line, 1, 12)
    ELSE IF HourFormAt(line, 1) THEN SubSeq(line, 1, 11)
    ELSE IF MinuteForm(line) THEN SubSeq(line, 1, 9)
    ELSE None

\* s.count(c) for a one-character c
Count(s, c) == Cardinality({k \in 1..Len(s) : SubSeq(s, k, k) = c})

\* "if timestamp.count(':') == 1: timestamp = '00:' + timestamp; timestamp = timestamp[:8]"
normalize_timestamp(timestamp) ==
    TakePrefix(IF Count(timestamp, ":") = 1 THEN "00:" \o timestamp ELSE timestamp, 8)

\* the position of the first c in s at or after k, 0 if none
RECURSIVE FindFrom(_, _, _)
FindFrom(s, c, k) ==
    IF k > Len(s) THEN 0
    ELSE IF SubSeq(s, k, k) = c THEN k
    ELSE FindFrom(s, c, k + 1)

\* re.sub(r"<[^>]+>", "", s), scanning from position k
RECURSIVE StripTagsFrom(_, _)
StripTagsFrom(s, k) ==
    IF k > Len(s) THEN ""
    ELSE LET close == FindFrom(s, ">", k + 1)
         IN  IF SubSeq(s, k, k) = "<" /\ close >= k + 2
             THEN StripTagsFrom(s, close + 1)
             ELSE SubSeq(s, k, k) \o StripTagsFrom(s, k + 1)

\* re.sub(pat, rep, s) for a literal pat, scanning from position k
RECURSIVE ReplaceFrom(_, _, _, _)
ReplaceFrom(s, pat, rep, k) ==
    IF k > Len(s) THEN ""
    ELSE IF k + Len(pat) - 1 <= Len(s) /\ SubSeq(s, k, k + Len(pat) - 1) = pat
    THEN rep \o ReplaceFrom(s, pat, rep, k + Len(pat))
    ELSE SubSeq(s, k, k) \o ReplaceFrom(s, pat, rep, k + 1)

\* the five re.sub calls applied to a stripped text line
clean_text_line(text_line) ==
    LET t0 == StripTagsFrom(text_line, 1)
        t1 == ReplaceFrom(t0, "&amp;", "&", 1)
        t2 == ReplaceFrom(t1, "&lt;", "<", 1)
        t3 == ReplaceFrom(t2, "&gt;", ">", 1)
    IN  ReplaceFrom(t3, "&nbsp;", " ", 1)

\* "while i < len(lines) and lines[i].strip(): ...; i += 1" from line k on:
\* <<the index reached, text_lines>>
RECURSIVE CollectText(_, _, _)
CollectText(ls, k, text_lines) ==
    IF k > Len(ls) \/ strip(ls[k]) = "" THEN <<k, text_lines>>
    ELSE LET text_line == clean_text_line(strip(ls[k]))
         IN  CollectText(ls, k + 1,
                 IF text_line # "" THEN Append(text_lines, text_line) ELSE text_lines)

\* " ".join(text_lines) for a non-empty list
RECURSIVE JoinSpace(_)
JoinSpace(text_lines) ==
    IF Len(text_lines) = 1 THEN text_lines[1]
    ELSE text_lines[1] \o " " \o JoinSpace(Tail(text_lines))

MaxLines == 3

\* the lines a caption file is made of here: a header, blank lines, timestamp lines
\* of every form, a timing line the pattern rejects, and text lines
TimestampLines ==
    { "00:00:01.000 --> 00:00:03.000",
      "12:34:56.789 --> 12:34:59.000",
      "1:02:03.456 --> 1:02:05.000",
      "02:03.456 --> 02:05.000",
      "02:03 --> 02:05" }

OtherLines == {"WEBVTT", "", " ", "hello", "<c>a</c> &amp; b"}

VttLines == TimestampLines \cup OtherLines

InitVtt ==
    /\ \E n \in 0..MaxLines : lines \in [1..n -> VttLines]
    /\ v_i = 1
    /\ v_pc = "header"
    /\ v_entries = <<>>
    /\ IdleDedup
    /\ IdleMain
    /\ IdleMig

\* the line under the index
Line == lines[v_i]

\* the header loop skips a line
VttSkipHeader ==
    /\ v_pc = "header"
    /\ v_i <= Len(lines)
    /\ ~startswith(strip(Line), "00:")
    /\ ~Contains("-->", Line)
    /\ v_i' = v_i + 1
    /\ UNCHANGED <<lines, v_pc, v_entries, dedupVars, mainVars, migVars>>

\* the header loop ends
VttHeaderDone ==
    /\ v_pc = "header"
    /\ IF v_i > Len(lines) THEN TRUE
       ELSE startswith(strip(Line), "00:") \/ Contains("-->", Line)
    /\ v_pc' = "cues"
    /\ UNCHANGED <<lines, v_i, v_entries, dedupVars, mainVars, migVars>>

\* a timestamp line the pattern matches: the text lines under it are collected and
\* the cue is appended if there are any
VttCue ==
    /\ v_pc = "cues"
    /\ v_i <= Len(lines)
    /\ Contains("-->", strip(Line))
    /\ timestamp_match(strip(Line)) # None
    /\ LET timestamp == normalize_timestamp(timestamp_match(strip(Line)))
           got == CollectText(lines, v_i + 1, <<>>)
       IN  /\ v_i' = got[1]
           /\ v_entries' = IF got[2] # <<>>
                           THEN Append(v_entries, <<timestamp, JoinSpace(got[2])>>)
                           ELSE v_entries
    /\ UNCHANGED <<lines, v_pc, dedupVars, mainVars, migVars>>

\* any other line: "i += 1"
VttSkipLine ==
    /\ v_pc = "cues"
    /\ v_i <= Len(lines)
    /\ ~(Contains("-->", strip(Line)) /\ timestamp_match(strip(Line)) # None)
    /\ v_i' = v_i + 1
    /\ UNCHANGED <<lines, v_pc, v_entries, dedupVars, mainVars, migVars>>

\* "return entries"
VttReturn ==
    /\ v_pc = "cues"
    /\ v_i > Len(lines)
    /\ v_pc' = "done"
    /\ UNCHANGED <<lines, v_i, v_entries, dedupVars, mainVars, migVars>>

NextVtt ==
    \/ VttSkipHeader
    \/ VttHeaderDone
    \/ VttCue
    \/ VttSkipLine
    \/ VttReturn

SpecVtt == InitVtt /\ [][NextVtt]_vars

-----------------------------------------------------------------------------
(* tools/wtm/migrations: 001, 003 and 005 on sessions.json *)
(* A JSON object is a function from its keys; JSON null is None.           *)

\* d.get(k, default)
Get(d, k, default) == IF k \in DOMAIN d THEN d[k] ELSE default

\* d[k] = v
Put(d, k, v) == [x \in DOMAIN d \cup {k} |-> IF x = k THEN v ELSE d[x]]

\* d.setdefault(k, v)
SetDefault(d, k, v) == IF k \in DOMAIN d THEN d ELSE Put(d, k, v)

\* {}
EmptyDict == [x \in {} |-> None]

\* data.get("sessions", {})
SessionsOf(d) == Get(d, "sessions", EmptyDict)

\* the document after the loop over data.get("sessions", {}).items() has changed
\* its sessions in place; a document without "sessions" is left as it is
WithSessions(d, sessions) == IF "sessions" \in DOMAIN d THEN Put(d, "sessions", sessions) ELSE d

\* 001: the setdefault calls on one session
fill_v2(session) ==
    LET s1 == SetDefault(session, "last_activity_at", Get(session, "created_at", None))
        s2 == SetDefault(s1, "ttl_hours", 168)
        s3 == SetDefault(s2, "tags", <<>>)
        s4 == SetDefault(s3, "template", None)
        s5 == SetDefault(s4, "parent_session", None)
        s6 == SetDefault(s5, "metrics",
                  [commits |-> 0, files_changed |-> 0, lines_added |-> 0,
                   lines_removed |-> 0, duration_minutes |-> 0])
    IN  SetDefault(s6, "health",
            [worktree_ok |-> TRUE, tmux_ok |-> TRUE, watcher_ok |-> TRUE,
             symlinks_ok |-> TRUE, last_check |-> None])

already_v2_strict(d) == Get(d, "version", 0) > 2
\* 001: "if data.get('version', 0) >= 2: sys.exit(0)"
already_v2(d) == Get(d, "version", 0) >= 2

\* 001 as a function of the document: <<document, exit status, file written>>
migrate_001(d) ==
    IF already_v2(d) THEN <<d, 0, FALSE>>
    ELSE LET filled == [sid \in DOMAIN SessionsOf(d) |-> fill_v2(SessionsOf(d)[sid])]
         IN  <<Put(WithSessions(d, filled), "version", 2), 0, TRUE>>

\* socket.gethostname().lower().replace(" ", "-")
machine_id == "host"

\* 003: the setdefault calls on one session
fill_v3(session) ==
    LET s1 == SetDefault(session, "child_sessions", <<>>)
        s2 == SetDefault(s1, "session_group", None)
        s3 == SetDefault(s2, "session_chain", [previous |-> None, next |-> None])
        s4 == SetDefault(s3, "context",
                  [journal_path |-> None, last_handoff |-> None, conversation_refs |-> <<>>])
        s5 == SetDefault(s4, "cross_project",
                  [depends_on |-> <<>>, depended_by |-> <<>>, shared_group |-> None])
    IN  SetDefault(s5, "machine",
            [origin_machine |-> machine_id, last_sync |-> None, sync_branch |-> None])

\* 003: "if data.get('version', 0) >= 3: sys.exit(0)"
already_v3(d) == Get(d, "version", 0) >= 3

\* 003 as a function of the document
migrate_003(d) ==
    IF already_v3(d) THEN <<d, 0, FALSE>>
    ELSE LET filled == [sid \in DOMAIN SessionsOf(d) |-> fill_v3(SessionsOf(d)[sid])]
         IN  <<Put(WithSessions(d, filled), "version", 3), 0, TRUE>>

\* a value Python takes as true, among None and strings
Truthy(v) == v # None /\ v # ""

\* 005: migrate_session; "terminal" and "health" hold objects whenever present
migrate_session(session) ==
    IF "terminal" \in DOMAIN session THEN session
    ELSE LET tmux == Get(session, "tmux", None)
             tmux_name == IF Truthy(tmux) THEN tmux
                          ELSE IF Truthy(Get(session, "tmux_session", None))
                          THEN session["tmux_session"]
                          ELSE ""
             s1 == Put(session, "terminal",
                       IF Truthy(tmux_name)
                       THEN [type |-> "tmux", session_name |-> tmux_name, pid |-> None,
                             capabilities |-> <<"launch", "send_command", "check_alive", "kill">>]
                       ELSE [type |-> "unknown", session_name |-> None, pid |-> None,
                             capabilities |-> <<"launch">>])
         IN  IF "health" \in DOMAIN s1 /\ "tmux_ok" \in DOMAIN s1["health"]
             THEN Put(s1, "health", Put(s1["health"], "terminal_ok", s1["health"]["tmux_ok"]))
             ELSE s1

\* 005: main on a given file
migrate_005(d) ==
    LET current_version == Get(d, "version", 0)
    IN  IF current_version >= 4 THEN <<d, 0, FALSE>>
        ELSE IF current_version < 3 THEN <<d, 1, FALSE>>
        ELSE LET sessions == SessionsOf(d)
                 migrated == [sid \in DOMAIN sessions |-> migrate_session(sessions[sid])]
             IN  <<Put(Put(d, "version", 4), "sessions", migrated), 0, TRUE>>

MaxVersion == 5

\* sessions found in a sessions file of some age
SessionSamples ==
    { [created_at |-> "t0", tmux |-> "wtm_a"],
      [created_at |-> "t0", tmux_session |-> "lazy_a"],
      [worktree |-> "w"],
      [created_at |-> "t0", tmux |-> "", ttl_hours |-> 24,
       health |-> [worktree_ok |-> TRUE, tmux_ok |-> FALSE]],
      [created_at |-> "t0", tmux |-> "wtm_a", child_sessions |-> <<"s2">>,
       terminal |-> [type |-> "iterm", session_name |-> "x", pid |-> None,
                     capabilities |-> <<"launch">>]] }

\* the "sessions" objects: none, or one session
SessionsSamples == {EmptyDict} \cup {[s1 |-> session] : session \in SessionSamples}

\* the documents: with or without "version", with or without "sessions"
Documents ==
    {EmptyDict}
        \cup {[sessions |-> ss] : ss \in SessionsSamples}
        \cup {[version |-> v] : v \in 0..MaxVersion}
        \cup {[version |-> v, sessions |-> ss] : v \in 0..MaxVersion, ss \in SessionsSamples}

InitMig ==
    /\ data \in Documents
    /\ ran = "none"
    /\ exit_code = 0
    /\ written = FALSE
    /\ IdleDedup
    /\ IdleMain
    /\ IdleVtt

\* a script was run on the file and ended as out tells
Ran(script, out) ==
    /\ data' = out[1]
    /\ exit_code' = out[2]
    /\ written' = out[3]
    /\ ran' = script
    /\ UNCHANGED <<dedupVars, mainVars, vttVars>>

\* 001 on a document at version 2 or more
Skip001 ==
    /\ already_v2(data)
    /\ Ran("001", migrate_001(data))

\* 001 on an older document
Run001 ==
    /\ ~already_v2(data)
    /\ Ran("001", migrate_001(data))

\* 003 on a document at version 3 or more
Skip003 ==
    /\ already_v3(data)
    /\ Ran("003", migrate_003(data))

\* 003 on an older document
Run003 ==
    /\ ~already_v3(data)
    /\ Ran("003", migrate_003(data))

\* 005 on a document at version 4 or more
Skip005 ==
    /\ Get(data, "version", 0) >= 4
    /\ Ran("005", migrate_005(data))

\* 005 on a document below version 3
Reject005 ==
    /\ Get(data, "version", 0) < 3
    /\ Ran("005", migrate_005(data))

\* 005 on a document at version 3
Run005 ==
    /\ Get(data, "version", 0) = 3
    /\ Ran("005", migrate_005(data))

NextMig ==
    \/ Skip001
    \/ Run001
    \/ Skip003
    \/ Run003
    \/ Skip005
    \/ Reject005
    \/ Run005

SpecMig == InitMig /\ [][NextMig]_vars

-----------------------------------------------------------------------------
(* Properties of deduplicate_entries *)

\* the texts of a cue sequence
TextsOf(cues) == [k \in DOMAIN cues |-> cues[k][2]]

\* the timestamps of a cue sequence
StampsOf(cues) == [k \in DOMAIN cues |-> cues[k][1]]

NoAdjacentEqual(s) == \A k \in 1..(Len(s) - 1) : s[k] # s[k + 1]

\* s is a subsequence of t, order kept
RECURSIVE IsSubsequence(_, _)
IsSubsequence(s, t) ==
    IF s = <<>> THEN TRUE
    ELSE IF t = <<>> THEN FALSE
    ELSE IF Head(s) = Head(t) THEN IsSubsequence(Tail(s), Tail(t))
    ELSE IsSubsequence(s, Tail(t))

IsPrefixOf(s, t) == Len(s) <= Len(t) /\ SubSeq(t, 1, Len(s)) = s

\* the largest i in 1..min(len(prev), len(curr)) with prev ending in curr[:i], 0 if none
LongestOverlap(prev, curr) ==
    LET hits == {i \in 1..Min(Len(prev), Len(curr)) : endswith(prev, TakePrefix(curr, i))}
    IN  IF hits = {} THEN 0 ELSE CHOOSE i \in hits : \A j \in hits : j <= i

\* neither text equals nor contains the other
Unrelated(prev, curr) == prev # curr /\ ~Contains(prev, curr) /\ ~Contains(curr, prev)

\* a cue sequence with nothing to merge
Clean(cues) ==
    \A k \in 1..(Len(cues) - 1) :
        /\ Unrelated(cues[k][2], cues[k + 1][2])
        /\ LongestOverlap(cues[k][2], cues[k + 1][2]) <= 5

\* C2: no two adjacent merged cues have the same text, at every step of the pass
\* and in the returned sequence.
C2_NoAdjacentIdentical ==
    /\ NoAdjacentEqual(merged_parts)
    /\ d_pc = "done" => NoAdjacentEqual(TextsOf(result))

\* C2 witness: a returned sequence of two or more cues whose last cue was extended
\* by an overlap merge after it was started: its text is none of the input texts.
C2_Witness ==
    /\ d_pc = "done"
    /\ Len(result) >= 2
    /\ \A k \in DOMAIN entries : entries[k][2] # Last(result)[2]

C3_State ==
    /\ d_pc \in {"loop", "done"} /\ entries # <<>> =>
          /\ timestamps[1] = entries[1][1]
          /\ IsSubsequence(timestamps, StampsOf(entries))
          /\ Len(timestamps) = Len(merged_parts)
    /\ d_pc = "done" => StampsOf(result) = timestamps

\* C3: the returned timestamps are a subsequence of the input timestamps starting
\* with the first input timestamp, and a timestamp once recorded never changes.
C3_TimestampsKept == []C3_State /\ [][IsPrefixOf(timestamps, timestamps')]_vars

\* C3 witness: three cues in, two out, the second one started by cue 2 and replaced
\* by its superset cue 3, still carrying the timestamp of cue 2.
C3_Witness ==
    /\ d_pc = "done"
    /\ Len(entries) = 3
    /\ Len(result) = 2
    /\ result[2][1] = entries[2][1]
    /\ entries[3][2] # entries[2][2]
    /\ result[2][2] = entries[3][2]

ExamplePair == <<<<1, "the quick brown">>, <<2, "brown fox jumps">>>>

\* C4 as stated: the example pair is merged into one cue.
C4_Original ==
    d_pc = "done" /\ entries = ExamplePair
        => result = <<<<1, "the quick brown fox jumps">>>>

\* C4 amended: the example pair overlaps on "brown", 5 characters, which does not
\* exceed the threshold, so both cues are returned unchanged.
C4_ExampleKeptApart == d_pc = "done" /\ entries = ExamplePair => result = ExamplePair

\* C4 witness: the pass over the example pair has returned.
C4_Witness == d_pc = "done" /\ entries = ExamplePair /\ Len(result) = 2

\* the visited cue and the last merged text neither equal nor contain each other
VisitingUnrelated == Visiting /\ Unrelated(Last(merged_parts), entries[idx][2])

\* the overlap k of the last merged text and the visited cue
VisitedOverlap == LongestOverlap(Last(merged_parts), entries[idx][2])

\* the trimmed remainder curr[k:] of the visited cue
VisitedRemainder == strip(DropPrefix(entries[idx][2], VisitedOverlap))

\* the step leaves the merged cues before the last one alone
EarlierCuesKept ==
    SubSeq(merged_parts', 1, Len(merged_parts) - 1)
        = SubSeq(merged_parts, 1, Len(merged_parts) - 1)

\* the step keeps the visited cue as a new cue with its own timestamp
KeptApart ==
    /\ merged_parts' = Append(merged_parts, entries[idx][2])
    /\ timestamps' = Append(timestamps, entries[idx][1])

\* the step adds no cue
NoCueAdded == Len(merged_parts') = Len(merged_parts) /\ timestamps' = timestamps

\* the step rewrites the last merged text to prev + " " + trimmed curr[k:]
MergedAsStated == Last(merged_parts') = Last(merged_parts) \o " " \o VisitedRemainder

\* C5 as stated: overlap k <= 5 keeps curr apart, k >= 6 adds no cue and always
\* rewrites the last merged text to prev + " " + trimmed curr[k:].
C5_Original ==
    [][VisitingUnrelated =>
          /\ EarlierCuesKept
          /\ VisitedOverlap <= 5 => KeptApart
          /\ VisitedOverlap >= 6 => NoCueAdded /\ MergedAsStated]_vars

\* C5 amended: overlap k <= 5 keeps curr apart with its own timestamp; k >= 6 adds
\* no cue and the last merged text becomes prev + " " + trimmed curr[k:], unless the
\* trimmed remainder is empty, in which case the last merged text stays prev.
C5_Threshold ==
    [][VisitingUnrelated =>
          /\ EarlierCuesKept
          /\ VisitedOverlap <= 5 => KeptApart
          /\ VisitedOverlap >= 6 =>
                /\ NoCueAdded
                /\ IF VisitedRemainder = ""
                   THEN Last(merged_parts') = Last(merged_parts)
                   ELSE MergedAsStated]_vars

\* C5 witness: cue 2 overlapped cue 1 by 6 or more without containment and was
\* merged into it.
C5_Witness ==
    /\ d_pc = "loop"
    /\ idx = 3
    /\ Unrelated(entries[1][2], entries[2][2])
    /\ LongestOverlap(entries[1][2], entries[2][2]) >= 6
    /\ merged_parts = <<entries[1][2] \o " " \o strip(DropPrefix(entries[2][2], 6))>>

\* C8: an input with nothing to merge, the empty one included, is returned as it is.
C8_CleanFixedPoint == d_pc = "done" /\ Clean(entries) => result = entries

\* C8 witness: a clean input of three cues, two of them overlapping by exactly 5,
\* has been returned.
C8_Witness ==
    /\ d_pc = "done"
    /\ Len(entries) = 3
    /\ Clean(entries)
    /\ \E k \in 1..2 : LongestOverlap(entries[k][2], entries[k + 1][2]) = 5

\* C10 as stated: deduplicating a returned sequence again changes nothing.
C10_Idempotent == d_pc = "done" => deduplicate_entries(result) = result

-----------------------------------------------------------------------------
(* Properties of extract_subtitles and main *)

\* the preferred tags present in a partition, by rank
RanksIn(available) == {k \in DOMAIN preferred_langs : preferred_langs[k] \in available}

\* the best-ranked preferred tag of a partition that holds one
BestIn(available) ==
    preferred_langs[CHOOSE k \in RanksIn(available) : \A j \in RanksIn(available) : k <= j]

\* the selection step ends with this language and kind chosen
Selects(l, auto) == m_pc' = "download" /\ chosen_lang' = l /\ is_auto' = auto

\* the selection step ends with extract_subtitles returning (None, None)
SelectsNothing == m_pc' = "returned" /\ subtitle_file' = None /\ lang' = None

\* C1: a preferred tag in the manual partition gives the best-ranked such tag as a
\* manual track whatever the automatic partition holds; else a preferred tag in the
\* automatic partition gives the best-ranked such tag as automatic; else NotFound.
C1_Selection ==
    [][m_pc = "select" =>
          IF RanksIn(available_subs) # {} THEN Selects(BestIn(available_subs), FALSE)
          ELSE IF RanksIn(available_auto) # {} THEN Selects(BestIn(available_auto), TRUE)
          ELSE SelectsNothing]_vars

\* C1 witness: a manual "en" track was chosen although automatic "ko", ranked
\* higher, was on offer.
C1_Witness ==
    /\ m_pc = "download"
    /\ chosen_lang = "en"
    /\ ~is_auto
    /\ "ko" \in available_auto
    /\ "ko" \notin available_subs

\* the caption section of the printed report
Captions == stdout[1].captions

\* C6: after metadata retrieval succeeded no exception leaves main and main does
\* not exit early; the report is printed in full, and its caption section is the
\* diagnostic if an exception was raised, the no-captions sentence if no preferred
\* tag is in the catalog, the download-failed message if a language was chosen and
\* no file produced, and else the transcript or the no-parseable-captions message.
C6_ReportAlwaysPrinted ==
    /\ m_pc # "crashed"
    /\ m_pc = "exited" => raised_at = "metadata"
    /\ m_pc \in {"print", "raise", "returned", "download", "select", "extract_info"}
          => ENABLED NextMain
    /\ m_pc = "done" =>
          /\ Len(stdout) = 1
          /\ stdout[1].sections = <<"metadata", "description", "captions">>
          /\ IF raised_at # "none" THEN Captions = [kind |-> "error"]
             ELSE IF RanksIn(available_subs) = {} /\ RanksIn(available_auto) = {}
             THEN Captions = [kind |-> "no_captions"]
             ELSE IF subtitle_file = None
             THEN Captions = [kind |-> "download_failed", lang |-> chosen_lang]
             ELSE \/ Captions = [kind |-> "unparseable"]
                  \/ /\ Captions.kind = "transcript"
                     /\ Captions.cues # <<>>
                     /\ Captions.lang = chosen_lang

\* C6 witness: parsing the downloaded file raised and the report was printed with
\* the diagnostic in its caption section.
C6_Witness ==
    /\ m_pc = "done"
    /\ raised_at = "parse"
    /\ subtitle_file # None
    /\ Captions = [kind |-> "error"]

-----------------------------------------------------------------------------
(* Properties of parse_vtt *)

\* HH:MM:SS: eight characters, three two-digit groups separated by colons
IsHHMMSS(t) ==
    /\ Len(t) = 8
    /\ DigitsAt(t, 1, 2)
    /\ CharAt(t, 3) = ":"
    /\ DigitsAt(t, 4, 2)
    /\ CharAt(t, 6) = ":"
    /\ DigitsAt(t, 7, 2)

\* C7 as stated: every cue parse_vtt produces carries an HH:MM:SS timestamp.
C7_TimestampNormalized == \A k \in DOMAIN v_entries : IsHHMMSS(v_entries[k][1])

-----------------------------------------------------------------------------
(* Properties of the sessions migrations *)

VersionOf(d) == Get(d, "version", 0)

\* the script run by the step, applied once more to the document it left
RunAgain(script, d) ==
    CASE script = "001" -> migrate_001(d)
      [] script = "003" -> migrate_003(d)
      [] script = "005" -> migrate_005(d)

\* C9: over any sequence of runs of 001, 003 and 005 the version never decreases;
\* a run writes the document exactly when it raises the version (001 from below 2,
\* 003 from below 3, 005 from 3), and leaves it unchanged otherwise; a second run of
\* the same script changes nothing; 005 below version 3 exits 1 without a change.
C9_MigrationsMonotone ==
    [][ /\ VersionOf(data') >= VersionOf(data)
        /\ written' => VersionOf(data') > VersionOf(data)
        /\ ~written' => data' = data
        /\ written' <=> \/ ran' = "001" /\ VersionOf(data) < 2
                        \/ ran' = "003" /\ VersionOf(data) < 3
                        \/ ran' = "005" /\ VersionOf(data) = 3
        /\ RunAgain(ran', data') = <<data', 0, FALSE>>
               \/ (ran' = "005" /\ VersionOf(data) < 3)
        /\ ran' = "005" /\ VersionOf(data) < 3 => exit_code' = 1 /\ data' = data
      ]_vars

\* C9 witness: a document that began below version 2 has been taken to version 4
\* by the three scripts, 005 last.
C9_Witness ==
    /\ ran = "005"
    /\ written
    /\ VersionOf(data) = 4
    /\ "sessions" \in DOMAIN data
    /\ "s1" \in DOMAIN data["sessions"]
    /\ "ttl_hours" \in DOMAIN data["sessions"]["s1"]
    /\ "machine" \in DOMAIN data["sessions"]["s1"]
    /\ "terminal" \in DOMAIN data["sessions"]["s1"]

====
